---- MODULE Spec2Model ----
(***************************************************************************)
(* charliebot: per-nick Markov chains built from IRC logs (generate) and   *)
(* served over IRC through a TTL cache (serve).                            *)
(*                                                                         *)
(* Strings are sequences of one-character strings.  An Option is a         *)
(* sequence of length at most one: None is << >>, Some(v) is <<v>>.        *)
(*                                                                         *)
(* time::Instant is opaque and monotonic and the program only ever looks   *)
(* at differences now - last_used, so a cache entry carries that           *)
(* difference directly in its field idle (seconds elapsed since last_used  *)
(* was set), saturating at MaxIdle: "last_used = Instant::now()" is        *)
(* idle = 0 and the passing of one second is the action Tick.              *)
(***************************************************************************)
EXTENDS Naturals, Sequences, FiniteSets

VARIABLES
    spc,        \* position of serve(): "start", "serving", "join", "returned_err"
    tpc,        \* position of the cleanup thread: "none", "sleep", "locked"
    sleep_left, \* seconds the cleanup thread's thread::sleep still has to run
    lock,       \* holder of the Mutex<Chains>: "free", "handler", "sweep"
    cached,     \* Chains.cached: the set of (nick, CachedChain) entries
    hpc,        \* position of the for_each_incoming closure: "wait", "reply"
    cur,        \* Option: the inbound message being (or last) handled
    cnick,      \* Option: the closure's nick, the normalized argument of cur
    res,        \* what find_nick did for cur: [kind, chain]
    outbox,     \* the messages sent for cur through client.send_privmsg
    disk,       \* the filesystem: a set of [path, ok, c] files
    gpc,        \* position of generate(): "off", "reading", "saving", "done", "failed"
    log,        \* the lines of the log file given to generate
    pos,        \* number of lines the Parser has read from log
    chains,     \* read_file's HashMap<String, Chain>: a set of [nick, c]
    todo,       \* the nicks generate's loop over chains has still to visit
    arg,        \* input of the pure function under check
    ret         \* Option: its result

vars == <<spc, tpc, sleep_left, lock, cached, hpc, cur, cnick, res, outbox, disk,
          gpc, log, pos, chains, todo, arg, ret>>

serveVars == <<spc, tpc, sleep_left, lock, cached, hpc, cur, cnick, res, outbox>>
genVars == <<gpc, log, pos, chains, todo>>
pureVars == <<arg, ret>>

None == << >>
Some(v) == <<v>>

Min(a, b) == IF a <= b THEN a ELSE b

(***************************************************************************)
(* Bounds of the model.                                                    *)
(***************************************************************************)
\* idle saturates here; above Ttl + SweepPeriod so that late sweeps show
MaxIdle == 24
\* longest log given to generate
MaxLogLines == 2
\* longest identity given to path_for_nick on its own
MaxNickLen == 3
\* number of candidates a stream holds after its run of rejected ones
MaxTail == 2

(***************************************************************************)
(* Program constants.                                                      *)
(***************************************************************************)
Ttl == 20
SweepPeriod == 3
TakeBound == 500
MinLen == 20
MaxLen == 100

DATA_DIR == <<".", "/", "d", "a", "t", "a">>
PREFIX == <<"!", "c", "h", "a", "r", "l", "i", "e">>
BinExt == <<"b", "i", "n">>

(***************************************************************************)
(* str primitives of the standard library, as the program uses them.       *)
(***************************************************************************)
UpperCase == <<"A", "B", "C", "D", "E", "F", "G", "H", "I", "J", "K", "L", "M",
               "N", "O", "P", "Q", "R", "S", "T", "U", "V", "W", "X", "Y", "Z">>
LowerCase == <<"a", "b", "c", "d", "e", "f", "g", "h", "i", "j", "k", "l", "m",
               "n", "o", "p", "q", "r", "s", "t", "u", "v", "w", "x", "y", "z">>

\* char::is_whitespace, char::is_ascii_whitespace on the characters in use
Whitespace == {" ", "\t", "\n", "\r"}

\* the closure |c| c == '@' || c == '>'
Decoration == {"@", ">"}

\* index of the first character of s outside the set cs, Len(s) + 1 if none
FirstNotIn(s, cs) ==
    LET out == {i \in 1..Len(s) : s[i] \notin cs}
    IN IF out = {} THEN Len(s) + 1 ELSE CHOOSE i \in out : \A j \in out : i <= j

\* index of the last character of s outside the set cs, 0 if none
LastNotIn(s, cs) ==
    LET out == {i \in 1..Len(s) : s[i] \notin cs}
    IN IF out = {} THEN 0 ELSE CHOOSE i \in out : \A j \in out : j <= i

\* str::trim_matches: strips every leading and trailing character in cs
TrimMatches(s, cs) ==
    IF FirstNotIn(s, cs) > Len(s) THEN << >>
    ELSE SubSeq(s, FirstNotIn(s, cs), LastNotIn(s, cs))

\* str::trim
Trim(s) == TrimMatches(s, Whitespace)

ToAsciiLowercaseChar(c) ==
    IF \E i \in 1..Len(UpperCase) : UpperCase[i] = c
    THEN LowerCase[CHOOSE i \in 1..Len(UpperCase) : UpperCase[i] = c]
    ELSE c

\* str::to_ascii_lowercase
ToAsciiLowercase(s) == [i \in 1..Len(s) |-> ToAsciiLowercaseChar(s[i])]

\* str::contains in its place
ContainsStr(s, p) ==
    \E i \in 1..Len(s) : i + Len(p) - 1 <= Len(s) /\ SubSeq(s, i, i + Len(p) - 1) = p

\* str::starts_with
StartsWith(s, p) == Len(s) >= Len(p) /\ SubSeq(s, 1, Len(p)) = p

\* log_parse::normalize_nick
normalize_nick(s) == ToAsciiLowercase(TrimMatches(Trim(s), Decoration))

(***************************************************************************)
(* log_parse: Entry::from_line and the Parser.  A log is a sequence of     *)
(* lines without their line ends; Unreadable stands for bytes read_line    *)
(* fails on.                                                               *)
(***************************************************************************)
\* char::is_ascii_whitespace
AsciiWhitespace == {" ", "\t", "\n", "\f", "\r"}

Unreadable == <<"?invalid utf-8">>

\* str::splitn(n, |c| c.is_ascii_whitespace()): cuts at each of the first
\* n - 1 whitespace characters
RECURSIVE SplitN(_, _)
SplitN(s, n) ==
    LET ws == {i \in 1..Len(s) : s[i] \in AsciiWhitespace}
        cut == CHOOSE i \in ws : \A j \in ws : i <= j
    IN IF n <= 1 \/ ws = {} THEN <<s>>
       ELSE <<SubSeq(s, 1, cut - 1)>> \o SplitN(SubSeq(s, cut + 1, Len(s)), n - 1)

Markers == {<<"-", "-", ">">>, <<"<", "-", "-">>, <<"-", "-">>}

\* from_line comparing the field as written, not the normalized nick, with
\* the markers
FromLineRawMarker(line) ==
    LET f == SplitN(line, 4)
    IN IF Len(f) < 4 THEN None
       ELSE IF f[3] \in Markers THEN None
       ELSE Some([date |-> f[1], time |-> f[2],
                  nick |-> normalize_nick(f[3]), msg |-> f[4]])

\* Entry::from_line: Option of [date, time, nick, msg]
from_line(line) ==
    LET f == SplitN(line, 4)
    IN IF Len(f) < 4 THEN None
       ELSE IF normalize_nick(f[3]) \in Markers THEN None
       ELSE Some([date |-> f[1], time |-> f[2],
                  nick |-> normalize_nick(f[3]), msg |-> f[4]])

\* next_entry that ends the sequence at a line that is no entry
NextEntryEndAtSkip(lines) ==
    IF lines = << >> \/ Head(lines) = Unreadable THEN [res |-> "Done", e |-> None]
    ELSE IF from_line(Trim(Head(lines))) = None THEN [res |-> "Done", e |-> None]
    ELSE [res |-> "Yield", e |-> from_line(Trim(Head(lines)))]

\* Parser::next_entry on the lines left: "Done", "Skip" or "Yield" with the entry
next_entry(lines) ==
    IF lines = << >> \/ Head(lines) = Unreadable THEN [res |-> "Done", e |-> None]
    ELSE IF from_line(Trim(Head(lines))) = None THEN [res |-> "Skip", e |-> None]
    ELSE [res |-> "Yield", e |-> from_line(Trim(Head(lines)))]

\* the loop body of read_file for Yield(record): the record's chain is
\* created if it is not there and fed the message
FeedRecord(cs, record) ==
    IF \E c \in cs : c.nick = record.nick
    THEN {IF c.nick = record.nick THEN [c EXCEPT !.c = Append(@, record.msg)] ELSE c : c \in cs}
    ELSE cs \cup {[nick |-> record.nick, c |-> <<record.msg>>]}

(***************************************************************************)
(* std::path, as path_for_nick uses it.                                    *)
(***************************************************************************)
SetMax(S) == CHOOSE i \in S : \A j \in S : j <= i

\* PathBuf::push: an absolute component replaces the path, any other one is
\* appended after a separator
PathPush(path, comp) ==
    IF comp # << >> /\ comp[1] = "/" THEN comp
    ELSE IF path = << >> THEN comp
    ELSE IF path[Len(path)] = "/" THEN path \o comp
    ELSE path \o <<"/">> \o comp

\* Path::file_name: the span of the last component when it is a normal one
\* (trailing separators and trailing "." components are not components)
RECURSIVE FileNameSpan(_, _)
FileNameSpan(path, end) ==
    IF end = 0 THEN None
    ELSE IF path[end] = "/" THEN FileNameSpan(path, end - 1)
    ELSE LET seps == {i \in 1..end : path[i] = "/"}
             from == IF seps = {} THEN 1 ELSE SetMax(seps) + 1
             comp == SubSeq(path, from, end)
         IN IF comp = <<".">>
            THEN (IF from = 1 THEN None ELSE FileNameSpan(path, from - 1))
            ELSE IF comp = <<".", ".">> THEN None
            ELSE Some([from |-> from, to |-> end])

\* Path::file_stem: the file name up to its last '.', the whole name when it
\* has no '.' or only a leading one
FileStemLen(name) ==
    LET dots == {i \in 1..Len(name) : name[i] = "."}
    IN IF dots = {} \/ SetMax(dots) = 1 THEN Len(name) ELSE SetMax(dots) - 1

\* PathBuf::set_extension: cuts the path right after the file stem and
\* appends '.' and the extension; leaves a path with no file name alone
SetExtension(path, ext) ==
    LET span == FileNameSpan(path, Len(path))
    IN IF span = None THEN path
       ELSE LET name == SubSeq(path, span[1].from, span[1].to)
                keep == span[1].from - 1 + FileStemLen(name)
            IN SubSeq(path, 1, keep) \o <<".">> \o ext

\* path_for_nick
path_for_nick(data_dir, nick) ==
    SetExtension(PathPush(PathPush(<< >>, data_dir), nick), BinExt)

(***************************************************************************)
(* The reply selection of the for_each_incoming closure.  A candidate is   *)
(* [id, len]: the place it has in the chain's str_iter() and its len().    *)
(***************************************************************************)
\* "oh noes :(".to_string()
Fallback == [id |-> 0, len |-> 10]

\* Iterator::take
Take(s, n) == SubSeq(s, 1, Min(n, Len(s)))

\* the closure given to skip_while
Rejected(s) == s.len < MinLen \/ s.len > MaxLen

\* Iterator::skip_while with that closure
SkipWhileRejected(s) ==
    LET kept == {i \in 1..Len(s) : ~Rejected(s[i])}
    IN IF kept = {} THEN << >>
       ELSE SubSeq(s, CHOOSE i \in kept : \A j \in kept : i <= j, Len(s))

\* the same without the take(500)
SelectReplyUnbounded(stream) ==
    LET rest == SkipWhileRejected(stream)
    IN IF rest = << >> THEN Fallback ELSE Head(rest)

\* chain.c.str_iter().take(500).skip_while(..).next().unwrap_or_else(..)
SelectReply(stream) ==
    LET rest == SkipWhileRejected(Take(stream, TakeBound))
    IN IF rest = << >> THEN Fallback ELSE Head(rest)

(***************************************************************************)
(* Chains: the cache.  An entry is [nick, idle, chain], chain the          *)
(* Arc<Chain> [nick, c]; c is the MChain, the messages fed to it in order. *)
(***************************************************************************)
\* File::open and bincode::deserialize_from: the file's chain, if any
ReadChain(d, path) ==
    IF \E f \in d : f.path = path /\ f.ok
    THEN Some((CHOOSE f \in d : f.path = path /\ f.ok).c)
    ELSE None

\* CachedChain::from_path
from_path(d, nick, path) ==
    IF ReadChain(d, path) = None THEN None
    ELSE Some([nick |-> nick, idle |-> 0,
               chain |-> [nick |-> nick, c |-> ReadChain(d, path)[1]]])

\* the same leaving the stale entry beside the refreshed one
TouchCopy(m, nick) ==
    m \cup {[e EXCEPT !.idle = 0] : e \in {x \in m : x.nick = nick}}

\* HashMap::get_mut followed by CachedChain::touch
touch(m, nick) ==
    {IF e.nick = nick THEN [e EXCEPT !.idle = 0] ELSE e : e \in m}

\* HashMap::insert: replaces the entry of the key
HashMapInsert(m, e) == {x \in m : x.nick # e.nick} \cup {e}

\* the same with the comparison strict
CleanupStrict(m) == {e \in m : e.idle < Ttl}

\* cleanup that marks the entries it keeps as used
CleanupRefresh(m) == {[e EXCEPT !.idle = 0] : e \in {x \in m : x.idle <= Ttl}}

\* cleanup that keeps an entry one second past the ttl
CleanupLate(m) == {e \in m : e.idle <= Ttl + 1}

\* Chains::cleanup
cleanup(m) == {e \in m : e.idle <= Ttl}

\* the same with a touch that keeps last_used
FindNickNoTouch(m, d, nick) ==
    IF \E e \in m : e.nick = nick
    THEN [cached |-> m, kind |-> "hit",
          chain |-> Some((CHOOSE e \in m : e.nick = nick).chain)]
    ELSE LET c == from_path(d, nick, path_for_nick(DATA_DIR, nick))
         IN IF c # None
            THEN [cached |-> HashMapInsert(m, c[1]), kind |-> "loaded",
                  chain |-> Some(c[1].chain)]
            ELSE [cached |-> m, kind |-> "absent", chain |-> None]

\* the same caching a placeholder when the load fails
FindNickCacheMiss(m, d, nick) ==
    IF \E e \in m : e.nick = nick
    THEN [cached |-> touch(m, nick), kind |-> "hit",
          chain |-> Some((CHOOSE e \in m : e.nick = nick).chain)]
    ELSE LET c == from_path(d, nick, path_for_nick(DATA_DIR, nick))
         IN IF c # None
            THEN [cached |-> HashMapInsert(m, c[1]), kind |-> "loaded",
                  chain |-> Some(c[1].chain)]
            ELSE [cached |-> HashMapInsert(m, [nick |-> nick, idle |-> 0,
                                 chain |-> [nick |-> nick, c |-> << >>]]),
                  kind |-> "absent", chain |-> None]

\* Chains::find_nick: the cache afterwards, which branch ran, and the result
find_nick(m, d, nick) ==
    IF \E e \in m : e.nick = nick
    THEN [cached |-> touch(m, nick), kind |-> "hit",
          chain |-> Some((CHOOSE e \in m : e.nick = nick).chain)]
    ELSE LET c == from_path(d, nick, path_for_nick(DATA_DIR, nick))
         IN IF c # None
            THEN [cached |-> HashMapInsert(m, c[1]), kind |-> "loaded",
                  chain |-> Some(c[1].chain)]
            ELSE [cached |-> m, kind |-> "absent", chain |-> None]

(***************************************************************************)
(* serve: the inbound messages, the closure given to for_each_incoming,    *)
(* and the cleanup thread.  A message is [kind, line, rt]: its Command     *)
(* variant, its text, and what Message::response_target answers for it.    *)
(***************************************************************************)
NoRes == [kind |-> "none", chain |-> None]

\* the same for every command variant that carries a text
ParseIrcCmdAnyKind(msg) ==
    IF StartsWith(msg.line, PREFIX)
    THEN Some(Trim(SubSeq(msg.line, Len(PREFIX) + 1, Len(msg.line))))
    ELSE None

\* parse_irc_cmd
parse_irc_cmd(msg) ==
    IF msg.kind = "PRIVMSG" /\ StartsWith(msg.line, PREFIX)
    THEN Some(Trim(SubSeq(msg.line, Len(PREFIX) + 1, Len(msg.line))))
    ELSE None

\* message.response_target()
response_target(msg) == msg.rt

\* the candidates a chain's str_iter() may produce, by len(), around the window
EdgeLens == {MinLen - 1, MinLen, MaxLen, MaxLen + 1}

ServeStreams ==
    {<< >>} \cup {<<[id |-> 1, len |-> l]>> : l \in EdgeLens}

\* IrcClient::from_config and identify succeed; the cleanup thread is spawned
ServeConnect ==
    /\ spc = "start"
    /\ gpc \in {"off", "done"}
    /\ spc' = "serving"
    /\ tpc' = "sleep"
    /\ sleep_left' = SweepPeriod
    /\ UNCHANGED <<lock, cached, hpc, cur, cnick, res, outbox, disk>>
    /\ UNCHANGED <<genVars, pureVars>>

\* IrcClient::from_config or identify fails: serve returns the error
ServeConnectFail ==
    /\ spc = "start"
    /\ gpc \in {"off", "done"}
    /\ spc' = "returned_err"
    /\ UNCHANGED <<tpc, sleep_left, lock, cached, hpc, cur, cnick, res, outbox, disk>>
    /\ UNCHANGED <<genVars, pureVars>>

\* for_each_incoming hands the next message to the closure; a message that
\* is no command ends the closure at once
HandlerRecv(msgs) ==
    /\ spc = "serving"
    /\ hpc = "wait"
    /\ \E m \in msgs :
        /\ cur' = Some(m)
        /\ cnick' = IF parse_irc_cmd(m) = None THEN None
                    ELSE Some(normalize_nick(parse_irc_cmd(m)[1]))
        /\ hpc' = IF parse_irc_cmd(m) = None THEN "wait" ELSE "lookup"
    /\ res' = NoRes
    /\ outbox' = << >>
    /\ UNCHANGED <<spc, tpc, sleep_left, lock, cached, disk>>
    /\ UNCHANGED <<genVars, pureVars>>

\* chains.lock().unwrap().find_nick(&nick): the guard lives to the end of the
\* if-let, so the lock is kept while a reply is made and released at once
\* when no chain is found
HandlerFind ==
    /\ hpc = "lookup"
    /\ lock = "free"
    /\ LET r == find_nick(cached, disk, cnick[1])
       IN /\ cached' = r.cached
          /\ res' = [kind |-> r.kind, chain |-> r.chain]
          /\ lock' = IF r.chain = None THEN "free" ELSE "handler"
          /\ hpc' = IF r.chain = None THEN "wait" ELSE "reply"
    /\ UNCHANGED <<spc, tpc, sleep_left, cur, cnick, outbox, disk>>
    /\ UNCHANGED <<genVars, pureVars>>

\* the return without a reply that keeps the guard
HandlerNoTargetKeepLock ==
    /\ hpc = "reply"
    /\ response_target(cur[1]) = None
    /\ hpc' = "wait"
    /\ UNCHANGED <<spc, tpc, sleep_left, lock, cached, cur, cnick, res, outbox, disk>>
    /\ UNCHANGED <<genVars, pureVars>>

\* no response target: the closure returns without a reply
HandlerNoTarget ==
    /\ hpc = "reply"
    /\ response_target(cur[1]) = None
    /\ lock' = "free"
    /\ hpc' = "wait"
    /\ UNCHANGED <<spc, tpc, sleep_left, cached, cur, cnick, res, outbox, disk>>
    /\ UNCHANGED <<genVars, pureVars>>

\* the reply is selected among the chain's candidates and sent
HandlerReply ==
    /\ hpc = "reply"
    /\ response_target(cur[1]) # None
    /\ \E stream \in ServeStreams :
        outbox' = Append(outbox, [to |-> response_target(cur[1])[1],
                                  text |-> SelectReply(stream),
                                  chain |-> res.chain[1]])
    /\ lock' = "free"
    /\ hpc' = "wait"
    /\ UNCHANGED <<spc, tpc, sleep_left, cached, cur, cnick, res, disk>>
    /\ UNCHANGED <<genVars, pureVars>>

\* the inbound stream ends cleanly: for_each_incoming returns Ok and serve
\* goes on to thread.join() on the cleanup thread, whose loop has no exit
StreamEnd ==
    /\ spc = "serving"
    /\ hpc = "wait"
    /\ spc' = "join"
    /\ UNCHANGED <<tpc, sleep_left, lock, cached, hpc, cur, cnick, res, outbox, disk>>
    /\ UNCHANGED <<genVars, pureVars>>

\* the inbound stream fails: serve returns the error, main returns it and
\* the process ends, the cleanup thread with it
StreamFail ==
    /\ spc = "serving"
    /\ hpc = "wait"
    /\ spc' = "returned_err"
    /\ tpc' = "none"
    /\ lock' = "free"
    /\ UNCHANGED <<sleep_left, cached, hpc, cur, cnick, res, outbox, disk>>
    /\ UNCHANGED <<genVars, pureVars>>

\* the cleanup thread's sleep is over and it takes the lock
SweepLock ==
    /\ tpc = "sleep"
    /\ sleep_left = 0
    /\ lock = "free"
    /\ lock' = "sweep"
    /\ tpc' = "locked"
    /\ UNCHANGED <<spc, sleep_left, cached, hpc, cur, cnick, res, outbox, disk>>
    /\ UNCHANGED <<genVars, pureVars>>

\* cleanup() under the lock, then the next sleep
SweepCleanup ==
    /\ tpc = "locked"
    /\ cached' = cleanup(cached)
    /\ lock' = "free"
    /\ tpc' = "sleep"
    /\ sleep_left' = SweepPeriod
    /\ UNCHANGED <<spc, hpc, cur, cnick, res, outbox, disk>>
    /\ UNCHANGED <<genVars, pureVars>>

\* one second passes
Tick ==
    /\ spc \in {"serving", "join"}
    /\ cached' = {[e EXCEPT !.idle = Min(e.idle + 1, MaxIdle)] : e \in cached}
    /\ sleep_left' = IF tpc = "sleep" /\ sleep_left > 0
                     THEN sleep_left - 1 ELSE sleep_left
    /\ UNCHANGED <<spc, tpc, lock, hpc, cur, cnick, res, outbox, disk>>
    /\ UNCHANGED <<genVars, pureVars>>

(***************************************************************************)
(* The serve specification: a data directory as generate leaves it, plus   *)
(* a file that does not decode.                                            *)
(***************************************************************************)
Bob == <<"b", "o", "b">>
Al == <<"a", "l">>
Bad == <<"b", "a", "d">>
Zed == <<"z", "e", "d">>

ServeDisk ==
    {[path |-> path_for_nick(DATA_DIR, Bob), ok |-> TRUE, c |-> <<<<"h", "i">>>>],
     [path |-> path_for_nick(DATA_DIR, Al), ok |-> TRUE, c |-> <<<<"y", "o">>>>],
     [path |-> path_for_nick(DATA_DIR, Bad), ok |-> FALSE, c |-> << >>]}

ServeLines ==
    {PREFIX \o <<" ">> \o Bob,
     PREFIX \o <<" ", "@", "A", "l", ">", " ">>,
     PREFIX \o <<" ", "@", " ">> \o Bob,
     PREFIX \o <<" ">> \o Zed,
     PREFIX \o <<" ">> \o Bad,
     <<" ">> \o PREFIX \o <<" ">> \o Bob,
     <<"h", "i", " ">> \o Bob}

ServeInbound ==
    {[kind |-> k, line |-> l, rt |-> t] :
        k \in {"PRIVMSG"}, l \in ServeLines, t \in {None, Some("#c")}}
    \cup {[kind |-> "NOTICE", line |-> PREFIX \o <<" ">> \o Bob, rt |-> Some("#c")],
          [kind |-> "PING", line |-> << >>, rt |-> None]}

InitServe ==
    /\ spc = "start"
    /\ tpc = "none"
    /\ sleep_left = 0
    /\ lock = "free"
    /\ cached = {}
    /\ hpc = "wait"
    /\ cur = None
    /\ cnick = None
    /\ res = NoRes
    /\ outbox = << >>

InitGenOff ==
    /\ gpc = "off"
    /\ log = << >>
    /\ pos = 0
    /\ chains = {}
    /\ todo = {}

InitPureOff ==
    /\ arg = None
    /\ ret = None

Init ==
    /\ InitServe
    /\ InitGenOff
    /\ InitPureOff
    /\ disk = ServeDisk

Next ==
    \/ ServeConnect
    \/ ServeConnectFail
    \/ HandlerRecv(ServeInbound)
    \/ HandlerFind
    \/ HandlerNoTarget
    \/ HandlerReply
    \/ StreamEnd
    \/ StreamFail
    \/ SweepLock
    \/ SweepCleanup
    \/ Tick

Spec == Init /\ [][Next]_vars

\* the same with commands for one identity only
LifeInbound ==
    {m \in ServeInbound : m.kind = "PRIVMSG" /\ m.line = PREFIX \o <<" ">> \o Bob}

NextLife ==
    \/ ServeConnect
    \/ ServeConnectFail
    \/ HandlerRecv(LifeInbound)
    \/ HandlerFind
    \/ HandlerNoTarget
    \/ HandlerReply
    \/ StreamEnd
    \/ StreamFail
    \/ SweepLock
    \/ SweepCleanup
    \/ Tick

\* the threads are scheduled and time passes
FairSpec ==
    /\ Init
    /\ [][NextLife]_vars
    /\ WF_vars(Tick)
    /\ WF_vars(SweepLock)
    /\ WF_vars(SweepCleanup)
    /\ WF_vars(HandlerFind)
    /\ WF_vars(HandlerNoTarget)
    /\ WF_vars(HandlerReply)

(***************************************************************************)
(* Properties of serve.                                                    *)
(***************************************************************************)
\* the text of msg begins with the command prefix
HasPrefix(msg) ==
    /\ Len(msg.line) >= Len(PREFIX)
    /\ \A i \in 1..Len(PREFIX) : msg.line[i] = PREFIX[i]

\* msg is a command: a PRIVMSG whose text begins with the prefix
IsCommand(msg) == msg.kind = "PRIVMSG" /\ HasPrefix(msg)

\* the normalized target identity of the command msg
TargetIdentity(msg) ==
    normalize_nick(Trim(SubSeq(msg.line, Len(PREFIX) + 1, Len(msg.line))))

\* a model is persisted for nick: its file is there and decodes
Persisted(nick) ==
    \E f \in disk : f.path = path_for_nick(DATA_DIR, nick) /\ f.ok

\* the step is the closure's lookup
LookupStep == hpc = "lookup" /\ hpc' # "lookup"

\* the step is the cleanup thread's cleanup()
SweepStep == tpc = "locked" /\ tpc' = "sleep"

\* C1: under every interleaving of the handler's lookups (hit, or miss with
\* load and insert) and the sweep, the cache never holds two distinct
\* entries for the same identity.
C1_AtMostOneEntry ==
    \A e1 \in cached : \A e2 \in cached : e1.nick = e2.nick => e1 = e2

\* a miss has loaded and inserted an identity while the sweep is due and
\* waits for the lock, next to an entry of another identity
C1_Witness ==
    /\ res.kind = "loaded"
    /\ lock = "handler"
    /\ tpc = "sleep" /\ sleep_left = 0
    /\ \E e \in cached : e.nick = TargetIdentity(cur[1])
    /\ \E e \in cached : e.nick # TargetIdentity(cur[1]) /\ e.idle > 0

\* C2: a sweep removes every entry idle for longer than the TTL and keeps
\* every entry idle for at most the TTL.
C2_SweepTtlLaw ==
    [][SweepStep =>
        \A e \in cached : /\ e.idle > Ttl => e \notin cached'
                          /\ e.idle <= Ttl => e \in cached']_vars

\* the sweep runs on an entry idle for exactly the TTL and one idle longer
C2_Witness ==
    /\ tpc = "locked"
    /\ \E e \in cached : e.idle = Ttl
    /\ \E e \in cached : e.idle = Ttl + 1

\* C3: a lookup that returns a chain leaves an entry for that identity with
\* last_used the time of the lookup (idle 0), whose chain is the one
\* returned; on a hit it is the entry of before with only last_used changed.
C3_LookupRefreshes ==
    [][(LookupStep /\ res'.chain # None) =>
        LET nick == TargetIdentity(cur[1])
        IN /\ \E e \in cached' : /\ e.nick = nick
                                 /\ e.idle = 0
                                 /\ e.chain = res'.chain[1]
           /\ \A old \in cached : old.nick = nick =>
                  [old EXCEPT !.idle = 0] \in cached'
           /\ \A e \in cached' : e.nick = nick => e.idle = 0]_vars

\* a hit has refreshed an entry while another one stays past its TTL
C3_Witness ==
    /\ hpc = "reply"
    /\ res.kind = "hit"
    /\ \E e \in cached : e.nick = TargetIdentity(cur[1]) /\ e.idle = 0
    /\ \E e \in cached : e.nick # TargetIdentity(cur[1]) /\ e.idle > Ttl

\* C4: a lookup that misses the cache and finds no decodable file returns
\* nothing, leaves the entries as they are, sends nothing, and leaves serve
\* waiting for the next message.
C4_LoadMissNoTrace ==
    [][(/\ LookupStep
        /\ ~\E e \in cached : e.nick = TargetIdentity(cur[1])
        /\ ~Persisted(TargetIdentity(cur[1]))) =>
        /\ res'.chain = None
        /\ cached' = cached
        /\ outbox' = outbox
        /\ lock' = "free"
        /\ hpc' = "wait"
        /\ spc' = "serving"]_vars

\* a command for the identity whose file does not decode has been handled
\* with entries in the cache, and serve waits for the next message
C4_Witness ==
    /\ cur # None
    /\ IsCommand(cur[1])
    /\ TargetIdentity(cur[1]) = Bad
    /\ res.kind = "absent"
    /\ hpc = "wait"
    /\ spc = "serving"
    /\ cached # {}

\* C5: never more than one message is sent for an inbound message; once it
\* is handled, exactly one (a candidate or the fallback, to the response
\* target) has been sent if it is a command for a persisted identity with a
\* response target, and none otherwise.
C5_OneReplyOrNone ==
    /\ Len(outbox) <= 1
    /\ (hpc = "wait" /\ cur # None) =>
        IF /\ IsCommand(cur[1])
           /\ Persisted(TargetIdentity(cur[1]))
           /\ cur[1].rt # None
        THEN /\ Len(outbox) = 1
             /\ outbox[1].to = cur[1].rt[1]
             /\ outbox[1].text = Fallback \/ outbox[1].text.id >= 1
        ELSE outbox = << >>

\* a command for a persisted identity has been answered with the fallback
C5_Witness ==
    /\ hpc = "wait"
    /\ cur # None
    /\ IsCommand(cur[1])
    /\ Len(outbox) = 1
    /\ outbox[1].text = Fallback
    /\ outbox[1].to = cur[1].rt[1]

\* C6: a message whose text does not begin with the prefix has no side
\* effect: no lookup, nothing sent, the lock not taken, and the step that
\* receives it leaves the cache as it is.
C6_NonCommandNoEffect ==
    [][(cur' # None /\ ~HasPrefix(cur'[1])) =>
        /\ hpc' = "wait"
        /\ res' = NoRes
        /\ outbox' = << >>
        /\ lock' # "handler"
        /\ (cur' # cur \/ hpc' # hpc \/ res' # res \/ outbox' # outbox)
              => (cached' = cached /\ disk' = disk)]_vars

\* a message without the prefix has been received while the cache holds
\* entries
C6_Witness ==
    /\ cur # None
    /\ cur[1].kind = "PRIVMSG"
    /\ ~HasPrefix(cur[1])
    /\ hpc = "wait"
    /\ cached # {}

\* C8: once the inbound stream has ended, cleanly or not, serve eventually
\* returns to its caller.
C8_ServeReturnsAfterStreamEnd ==
    (spc \in {"join", "returned_err"}) ~> (spc \in {"returned_ok", "returned_err"})

(***************************************************************************)
(* The reply selection on its own: streams of candidates with a run of     *)
(* rejected ones as long as the take(500) bound, or about.                 *)
(***************************************************************************)
\* the candidate lengths lens, in that order, numbered from 1
StreamOf(lens) == [i \in 1..Len(lens) |-> [id |-> i, len |-> lens[i]]]

\* n times the length r, then the lengths of tail
RunThen(n, r, tail) == [i \in 1..(n + Len(tail)) |-> IF i <= n THEN r ELSE tail[i - n]]

Tails == UNION {[1..k -> EdgeLens] : k \in 0..MaxTail}

ReplyStreams ==
    {StreamOf(RunThen(n, r, tail)) :
        n \in {0, 1, TakeBound - 1, TakeBound, TakeBound + 1},
        r \in {MinLen - 1, MaxLen + 1},
        tail \in Tails}

InitReply ==
    /\ InitServe
    /\ InitGenOff
    /\ disk = {}
    /\ arg \in ReplyStreams
    /\ ret = None

\* the closure selects its reply among the candidates of arg
ApplySelectReply ==
    /\ ret = None
    /\ ret' = Some(SelectReply(arg))
    /\ UNCHANGED <<serveVars, genVars, disk, arg>>

NextReply == ApplySelectReply

SpecReply == InitReply /\ [][NextReply]_vars

\* the places of the candidates among the first TakeBound of the stream s
\* whose length is in the window from lo to hi, both included
InWindow(s, lo, hi) ==
    {i \in 1..Min(Len(s), TakeBound) : lo <= s[i].len /\ s[i].len <= hi}

\* the selection is the first candidate of s in the window, the fallback
\* if there is none
SelectsFirstIn(s, lo, hi, r) ==
    IF InWindow(s, lo, hi) = {} THEN r = Fallback
    ELSE r = s[CHOOSE i \in InWindow(s, lo, hi) : \A j \in InWindow(s, lo, hi) : i <= j]

\* C7 as stated: the selection is the first of the first 500 candidates
\* whose length L has 20 <= L < 100, the fallback if there is none.
C7_SelectsFirstInHalfOpenWindow ==
    ret # None => SelectsFirstIn(arg, MinLen, MaxLen - 1, ret[1])

\* C7 as amended: the selection is the first of the first 500 candidates
\* whose length L has 20 <= L <= 100, the fallback if there is none.
C7_SelectsFirstInClosedWindow ==
    ret # None => SelectsFirstIn(arg, MinLen, MaxLen, ret[1])

\* the 500th candidate, of length exactly 100, is selected after 499
\* rejected ones
C7_Witness ==
    /\ ret # None
    /\ ret[1].id = TakeBound
    /\ ret[1].len = MaxLen
    /\ Len(arg) > TakeBound

(***************************************************************************)
(* path_for_nick on its own, for two identities.                           *)
(***************************************************************************)
PathChars == {"a", "b", "."}

\* identities that begin with a letter, MaxNickLen characters at most
PathNicks ==
    {<<x>> \o t : x \in PathChars \ {"."},
                  t \in UNION {[1..k -> PathChars] : k \in 0..(MaxNickLen - 1)}}

InitPath ==
    /\ InitServe
    /\ InitGenOff
    /\ disk = {}
    /\ arg \in {[a |-> x, b |-> y] : x \in PathNicks, y \in PathNicks}
    /\ ret = None

\* the paths of the two identities of arg
ApplyPathForNick ==
    /\ ret = None
    /\ ret' = Some([a |-> path_for_nick(DATA_DIR, arg.a),
                    b |-> path_for_nick(DATA_DIR, arg.b)])
    /\ UNCHANGED <<serveVars, genVars, disk, arg>>

NextPath == ApplyPathForNick

SpecPath == InitPath /\ [][NextPath]_vars

\* directory/<identity>.bin
DirIdentityBin(dir, identity) == dir \o <<"/">> \o identity \o <<".">> \o BinExt

\* C10: the path of every identity is directory/<identity>.bin, so two
\* distinct identities never have the same file.
C10_PathIsDirIdentityBin ==
    ret # None =>
        /\ ret[1].a = DirIdentityBin(DATA_DIR, arg.a)
        /\ arg.a # arg.b => ret[1].a # ret[1].b

(***************************************************************************)
(* generate, then serve on the data directory it wrote.                    *)
(***************************************************************************)
\* File::create and bincode::serialize_into: the file is created or replaced
WriteFile(d, path, c) ==
    {f \in d : f.path # path} \cup {[path |-> path, ok |-> TRUE, c |-> c]}

\* create_dir_all and parse_file succeed
GenOpen ==
    /\ gpc = "start"
    /\ gpc' = "reading"
    /\ UNCHANGED <<log, pos, chains, todo, disk>>
    /\ UNCHANGED <<serveVars, pureVars>>

\* create_dir_all or parse_file fails: generate returns the error
GenOpenFail ==
    /\ gpc = "start"
    /\ gpc' = "failed"
    /\ UNCHANGED <<log, pos, chains, todo, disk>>
    /\ UNCHANGED <<serveVars, pureVars>>

\* one turn of read_file's loop
GenNextEntry ==
    /\ gpc = "reading"
    /\ LET r == next_entry(SubSeq(log, pos + 1, Len(log)))
       IN /\ pos' = IF pos < Len(log) THEN pos + 1 ELSE pos
          /\ chains' = IF r.res = "Yield" THEN FeedRecord(chains, r.e[1]) ELSE chains
          /\ gpc' = IF r.res = "Done" THEN "saving" ELSE "reading"
          /\ todo' = IF r.res = "Done" THEN {c.nick : c \in chains} ELSE todo
    /\ UNCHANGED <<log, disk>>
    /\ UNCHANGED <<serveVars, pureVars>>

\* the loop's turn without the test of the empty name
GenSaveAll ==
    /\ gpc = "saving"
    /\ \E n \in todo :
        /\ todo' = todo \ {n}
        /\ disk' = WriteFile(disk, path_for_nick(DATA_DIR, n),
                             (CHOOSE c \in chains : c.nick = n).c)
    /\ UNCHANGED <<gpc, log, pos, chains>>
    /\ UNCHANGED <<serveVars, pureVars>>

\* one turn of generate's loop over chains, in the HashMap's order
GenSave ==
    /\ gpc = "saving"
    /\ \E n \in todo :
        /\ todo' = todo \ {n}
        /\ disk' = IF Trim(n) = << >> THEN disk
                   ELSE WriteFile(disk, path_for_nick(DATA_DIR, n),
                                  (CHOOSE c \in chains : c.nick = n).c)
    /\ UNCHANGED <<gpc, log, pos, chains>>
    /\ UNCHANGED <<serveVars, pureVars>>

\* File::create or serialize_into fails: generate returns the error
GenSaveFail ==
    /\ gpc = "saving"
    /\ \E n \in todo : Trim(n) # << >>
    /\ gpc' = "failed"
    /\ UNCHANGED <<log, pos, chains, todo, disk>>
    /\ UNCHANGED <<serveVars, pureVars>>

\* the loop is over: generate returns Ok
GenDone ==
    /\ gpc = "saving"
    /\ todo = {}
    /\ gpc' = "done"
    /\ UNCHANGED <<log, pos, chains, todo, disk>>
    /\ UNCHANGED <<serveVars, pureVars>>

LogLines ==
    {<<"d", " ", "t", " ", "a", ".", "b", " ", "x">>,
     <<"d", " ", "t", " ", "a", ".", "c", " ", "y">>,
     <<"d", " ", "t", " ", "<", "B", "o", "b", ">", " ", "h", "i", " ", "y", "o">>,
     <<"d", " ", "t", " ", "b", "o", "b", " ", "y", "o">>,
     <<"d", " ", "t", " ", "-", "-", ">", " ", "b", "o", "b", " ", "i", "n">>,
     <<"d", " ", "t", " ", "@", " ", "z">>,
     <<"d", " ", "t">>,
     << >>,
     Unreadable}

\* a message line and a join line
AliceLog ==
    <<<<"2", "0", "2", "4", "-", "0", "1", "-", "0", "1", " ", "1", "0", ":",
        "0", "0", ":", "0", "0", " ", "<", "A", "l", "i", "c", "e", ">", " ",
        "h", "e", "l", "l", "o", " ", "t", "h", "e", "r", "e", " ", "f", "r",
        "i", "e", "n", "d">>,
      <<"2", "0", "2", "4", "-", "0", "1", "-", "0", "1", " ", "1", "0", ":",
        "0", "0", ":", "0", "1", " ", "-", "-", ">", " ", "b", "o", "b", " ",
        "h", "a", "s", " ", "j", "o", "i", "n", "e", "d">>>>

Logs == UNION {[1..k -> LogLines] : k \in 0..MaxLogLines} \cup {AliceLog}

\* a command for each identity generate has built a chain for
GenInbound ==
    {[kind |-> "PRIVMSG", line |-> PREFIX \o <<" ">> \o c.nick, rt |-> t] :
        c \in chains, t \in {None, Some("#c")}}

InitGen ==
    /\ InitServe
    /\ InitPureOff
    /\ disk = {}
    /\ gpc = "start"
    /\ log \in Logs
    /\ pos = 0
    /\ chains = {}
    /\ todo = {}

NextGen ==
    \/ GenOpen
    \/ GenOpenFail
    \/ GenNextEntry
    \/ GenSave
    \/ GenSaveFail
    \/ GenDone
    \/ ServeConnect
    \/ ServeConnectFail
    \/ HandlerRecv(GenInbound)
    \/ HandlerFind
    \/ HandlerNoTarget
    \/ HandlerReply

SpecGen == InitGen /\ [][NextGen]_vars

\* C9: after generate has completed, a command for an identity with a
\* non-empty name that has an Entry in the log finds a chain, and it is the
\* chain built from that identity's messages.
C9_ServesOwnChain ==
    (/\ gpc = "done"
     /\ cur # None
     /\ res.kind # "none"
     /\ TargetIdentity(cur[1]) # << >>
     /\ \E c \in chains : c.nick = TargetIdentity(cur[1])) =>
        /\ res.chain # None
        /\ \E c \in chains : /\ c.nick = TargetIdentity(cur[1])
                             /\ c.c = res.chain[1].c

(***************************************************************************)
(* Identity normalization as the cache sees it.                            *)
(***************************************************************************)
IsNormalizedIdentity(s) ==
    /\ s # << >> => /\ s[1] \notin Whitespace \cup Decoration
                    /\ s[Len(s)] \notin Whitespace \cup Decoration
    /\ \A i \in 1..Len(s) : \A j \in 1..Len(UpperCase) : s[i] # UpperCase[j]

BareIdentity(s) == ToAsciiLowercase(TrimMatches(s, Whitespace \cup Decoration))

CommandArgument(msg) == Trim(SubSeq(msg.line, Len(PREFIX) + 1, Len(msg.line)))

\* C11: every key of the cache is a normalized identity (no leading or
\* trailing whitespace, no leading or trailing '@' or '>', no uppercase
\* letter), and so is the key a command addresses, so that every decorated
\* spelling of an identity addresses the key of the bare identity.
C11_KeysNormalized ==
    /\ \A e \in cached : IsNormalizedIdentity(e.nick)
    /\ (cur # None /\ cnick # None) =>
          /\ IsNormalizedIdentity(cnick[1])
          /\ cnick[1] = BareIdentity(CommandArgument(cur[1]))

(***************************************************************************)
(* normalize_nick as a function of its argument.                           *)
(***************************************************************************)
MaxNormLen == 3

NormChars == {" ", "@", ">", "<", "B", "b"}

NormInputs == UNION {[1..n -> NormChars] : n \in 0..MaxNormLen}

InitNorm ==
    /\ InitServe
    /\ InitGenOff
    /\ disk = {}
    /\ arg \in NormInputs
    /\ ret = None

ApplyNormalizeNick ==
    /\ ret = None
    /\ ret' = Some(normalize_nick(arg))
    /\ UNCHANGED <<serveVars, genVars, disk, arg>>

NextNorm == ApplyNormalizeNick

SpecNorm == InitNorm /\ [][NextNorm]_vars

\* C12: normalizing an already normalized identity changes nothing:
\* normalize(normalize(s)) = normalize(s) for every string s.
C12_NormalizeIdempotent ==
    ret # None => normalize_nick(ret[1]) = ret[1]

(***************************************************************************)
(* Parser::next_entry as a function of the line read.                      *)
(***************************************************************************)
MaxTokLen == 4

TokChars == {"@", ">", "<", "-"}

Toks == UNION {[1..n -> TokChars] : n \in 1..MaxTokLen}

Seps == {<<" ">>, <<" ", " ">>, <<"\t">>}

\* lines of three and of four fields, and shorter ones
ParseLines ==
    {<<"d">> \o s1 \o <<"t">> \o s2 \o tok \o s3 \o <<"m">> :
        s1 \in Seps, s2 \in Seps, s3 \in Seps, tok \in Toks}
    \cup {<<"d">> \o s1 \o <<"t">> \o s2 \o tok : s1 \in Seps, s2 \in Seps, tok \in Toks}
    \cup {<<"d">> \o s1 \o tok \o <<" ">> : s1 \in Seps, tok \in Toks}
    \cup {<< >>, <<" ">>, <<"d">>}

InitLine ==
    /\ InitServe
    /\ InitGenOff
    /\ disk = {}
    /\ arg \in ParseLines
    /\ ret = None

\* one call of next_entry on a file that holds the line arg
ApplyNextEntry ==
    /\ ret = None
    /\ ret' = Some(next_entry(<<arg>>))
    /\ UNCHANGED <<serveVars, genVars, disk, arg>>

NextLine == ApplyNextEntry

SpecLine == InitLine /\ [][NextLine]_vars

\* the number of fields of line when fields are separated by runs of one or
\* more ASCII whitespace characters
RunFieldCount(line) ==
    Cardinality({i \in 1..Len(line) :
                    /\ line[i] \notin AsciiWhitespace
                    /\ (i = 1 \/ line[i - 1] \in AsciiWhitespace)})

\* C13: a log line with fewer than four fields, fields being separated by
\* runs of one or more ASCII whitespace characters, yields Skip and never an
\* Entry.
C13_ShortLineSkipped ==
    (ret # None /\ RunFieldCount(arg) < 4) => ret[1].res = "Skip"

\* the positions of the whitespace characters of the line as the parser
\* reads it (trimmed), in increasing order
WsPositions(line) ==
    {i \in 1..Len(Trim(line)) : Trim(line)[i] \in AsciiWhitespace}

NthWs(line, n) ==
    CHOOSE i \in WsPositions(line) :
        Cardinality({j \in WsPositions(line) : j < i}) = n - 1

\* the line has a third field: what stands between its second whitespace
\* character and the third one, or the end of the line
HasThirdField(line) == Cardinality(WsPositions(line)) >= 2

ThirdField(line) ==
    SubSeq(Trim(line), NthWs(line, 2) + 1,
           IF Cardinality(WsPositions(line)) >= 3 THEN NthWs(line, 3) - 1
           ELSE Len(Trim(line)))

Str_alice == <<"a", "l", "i", "c", "e">>

Str_hello_there_friend ==
    <<"h", "e", "l", "l", "o", " ", "t", "h", "e", "r", "e", " ",
      "f", "r", "i", "e", "n", "d">>

\* C14: the log of the line `2024-01-01 10:00:00 <Alice> hello there friend`
\* followed by the join line `2024-01-01 10:00:01 --> bob has joined` gives
\* exactly one Entry, of identity alice and message hello there friend; in
\* general no identity is recorded with its angle bracket.
C14_AliceEntry ==
    gpc \in {"saving", "done"} =>
        /\ log = AliceLog =>
              chains = {[nick |-> Str_alice, c |-> <<Str_hello_there_friend>>]}
        /\ \A c \in chains : c.nick # << >> => c.nick[1] # "<"

(***************************************************************************)
(* serve with a cleanup thread that runs as soon as it can: no second      *)
(* passes while its sleep is over and the lock is free, nor while it holds *)
(* the lock. The lock goes to the cleanup thread, when it waits for it, at *)
(* one of the handler's releases.                                          *)
(***************************************************************************)
SweepDue == tpc = "sleep" /\ sleep_left = 0

TickPrompt ==
    /\ ~(SweepDue /\ lock = "free")
    /\ tpc # "locked"
    /\ Tick

PromptInbound ==
    {m \in ServeInbound :
        /\ m.kind = "PRIVMSG"
        /\ \/ m.line = PREFIX \o <<" ">> \o Bob
           \/ m.line = PREFIX \o <<" ">> \o Zed /\ m.rt = None}

NextPrompt ==
    \/ ServeConnect
    \/ ServeConnectFail
    \/ HandlerRecv(PromptInbound)
    \/ HandlerFind
    \/ HandlerNoTarget
    \/ HandlerReply
    \/ StreamEnd
    \/ StreamFail
    \/ SweepLock
    \/ SweepCleanup
    \/ TickPrompt

PromptSpec ==
    /\ Init
    /\ [][NextPrompt]_vars
    /\ WF_vars(TickPrompt)
    /\ SF_vars(SweepLock)
    /\ WF_vars(SweepCleanup)
    /\ WF_vars(HandlerFind)
    /\ WF_vars(HandlerNoTarget)
    /\ WF_vars(HandlerReply)

\* a second passes on the entry e of the cache
TimePassesOn(e) ==
    /\ e.idle < MaxIdle
    /\ e \notin cached'
    /\ [e EXCEPT !.idle = e.idle + 1] \in cached'

InCache(nick) == \E e \in cached : e.nick = nick

JustUsed(nick) == \E e \in cached : e.nick = nick /\ e.idle = 0

\* C16: with the sweep every SweepPeriod seconds and Ttl longer than that,
\* an entry that is no longer used is eventually evicted, and no second
\* passes on an entry idle for Ttl + SweepPeriod seconds unless the sweep,
\* its sleep over, is waiting for the lock the handler holds.
C16_BoundedStaleness ==
    /\ [][\A e \in cached :
            (e.idle >= Ttl + SweepPeriod /\ TimePassesOn(e)) =>
                (SweepDue /\ lock = "handler")]_vars
    /\ \A nick \in {Bob} :
          []<>(spc = "returned_err" \/ ~InCache(nick) \/ JustUsed(nick))

C16_Witness ==
    /\ tpc = "locked"
    /\ \E e \in cached : e.idle = Ttl + SweepPeriod

CachedNicks(m) == {e.nick : e \in m}

\* C17: an entry is created only by a lookup that misses and loads the
\* identity's file, and removed only by the sweep; the sweep adds no entry
\* and leaves the entries it keeps as they are; a lookup removes no entry
\* and leaves the entries of the other identities as they are; the lookup
\* of a persisted identity that is not (or no longer) in the cache loads
\* it from disk as a new entry.
C17_EntryLifecycle ==
    [][/\ \A n \in CachedNicks(cached') \ CachedNicks(cached) :
            /\ LookupStep
            /\ n = TargetIdentity(cur[1])
            /\ res'.kind = "loaded"
            /\ Persisted(n)
       /\ CachedNicks(cached) \ CachedNicks(cached') # {} => SweepStep
       /\ SweepStep => cached' \subseteq cached
       /\ LookupStep =>
            /\ CachedNicks(cached) \subseteq CachedNicks(cached')
            /\ \A e \in cached : e.nick # TargetIdentity(cur[1]) => e \in cached'
       /\ (/\ LookupStep
           /\ ~InCache(TargetIdentity(cur[1]))
           /\ Persisted(TargetIdentity(cur[1]))) =>
            /\ res'.kind = "loaded"
            /\ \E e \in cached' : \E f \in disk :
                  /\ e.nick = TargetIdentity(cur[1])
                  /\ e.idle = 0
                  /\ f.path = path_for_nick(DATA_DIR, e.nick)
                  /\ e.chain.c = f.c]_vars

\* the entry the last command was answered from has been evicted since
C17_Witness ==
    /\ spc = "serving"
    /\ hpc = "wait"
    /\ tpc = "sleep"
    /\ res.chain # None
    /\ ~InCache(res.chain[1].nick)

\* the lines of l before the first one that cannot be read, all of l if
\* there is none
ReadPrefix(l) ==
    IF \E i \in 1..Len(l) : l[i] = Unreadable
    THEN SubSeq(l, 1, (CHOOSE i \in 1..Len(l) :
                          /\ l[i] = Unreadable
                          /\ \A j \in 1..(i - 1) : l[j] # Unreadable) - 1)
    ELSE l

IsEntryLine(l) == from_line(Trim(l)) # None

EntryNicks(ls) ==
    {from_line(Trim(ls[i]))[1].nick : i \in {j \in 1..Len(ls) : IsEntryLine(ls[j])}}

\* the messages of the entries of identity n among the lines ls, in order
FedTo(n, ls) ==
    LET OfNick(l) == IsEntryLine(l) /\ from_line(Trim(l))[1].nick = n
        sel == SelectSeq(ls, OfNick)
    IN [i \in 1..Len(sel) |-> from_line(Trim(sel[i]))[1].msg]

\* each entry of the lines ls has been fed once to its identity's chain
ChainsBuiltFrom(ls) ==
    chains = {[nick |-> n, c |-> FedTo(n, ls)] : n \in EntryNicks(ls)}

\* C18: a Skip does not end the reading; the end of the input and a read
\* error both end it as Done, without an error of their own; the builder
\* stops at the first Done: each Entry before it has been fed exactly once
\* to its identity's chain and no line after it is fed.
C18_StopsAtFirstDone ==
    /\ gpc = "reading" =>
          /\ \A i \in 1..pos : log[i] # Unreadable
          /\ ChainsBuiltFrom(SubSeq(log, 1, pos))
    /\ gpc \in {"saving", "done"} => ChainsBuiltFrom(ReadPrefix(log))
    /\ (gpc = "failed" /\ todo = {}) => pos = 0

\* the reading went past a line that is no entry, fed the entry after it,
\* and is over
C18_Witness ==
    /\ gpc = "saving"
    /\ Len(log) = 2
    /\ log[1] # Unreadable
    /\ ~IsEntryLine(log[1])
    /\ chains # {}

\* C19: when generate has succeeded, a file has been written for every
\* identity of non-empty name that has an Entry, and none for the identity
\* of empty name, whose chain was built in memory all the same: the files
\* of the data directory are those of the non-empty identities.
C19_FilesForNonEmptyIdentities ==
    gpc = "done" =>
        /\ \A c \in chains : c.nick # << >> => Persisted(c.nick)
        /\ {f.path : f \in disk} =
              {path_for_nick(DATA_DIR, c.nick) : c \in {x \in chains : x.nick # << >>}}

\* generate has succeeded on a log with an entry of empty identity and one
\* of a non-empty identity
C19_Witness ==
    /\ gpc = "done"
    /\ spc = "start"
    /\ \E c \in chains : c.nick = << >> /\ c.c # << >>
    /\ \E c \in chains : c.nick # << >>

(***************************************************************************)
(* serve with its two threads scheduled: the handler finishes each command *)
(* and the lock goes to the cleanup thread, when it waits for it, at one   *)
(* of the handler's releases.                                              *)
(***************************************************************************)
NextLock ==
    \/ ServeConnect
    \/ ServeConnectFail
    \/ HandlerRecv(PromptInbound)
    \/ HandlerFind
    \/ HandlerNoTarget
    \/ HandlerReply
    \/ StreamEnd
    \/ StreamFail
    \/ SweepLock
    \/ SweepCleanup
    \/ Tick

LockSpec ==
    /\ Init
    /\ [][NextLock]_vars
    /\ WF_vars(Tick)
    /\ SF_vars(SweepLock)
    /\ WF_vars(SweepCleanup)
    /\ WF_vars(HandlerFind)
    /\ WF_vars(HandlerNoTarget)
    /\ WF_vars(HandlerReply)

\* the entries of m without their age
Unaged(m) == {[nick |-> e.nick, chain |-> e.chain] : e \in m}

====
